---- MODULE Spec2Model ----
(***************************************************************************)
(* Moving-average crossover backtest (backtester.py, run_backtest).        *)
(*                                                                         *)
(* One run of run_backtest is a straight-line pipeline over a price table. *)
(* Each numbered section of the function is one action; pc is the section  *)
(* about to execute.  Table columns are sequences indexed 1..n (pandas     *)
(* position t is index t+1 here).                                          *)
(*                                                                         *)
(* Floating-point values are modelled as exact rationals with the IEEE     *)
(* specials the code can produce: k = "num" (n/d in lowest terms, d > 0),  *)
(* k = "nan", k = "inf" (n = sign).  Rounding error is not modelled.       *)
(* CAGR, volatility and the Sharpe ratio involve a real power and a square *)
(* root; they are carried as their IEEE class ("nan", "pinf", "ninf",      *)
(* "neg", "zero", "pos"), which is what the claims about them speak of.    *)
(***************************************************************************)
EXTENDS Integers, Sequences, FiniteSets

VARIABLES
    pc,                 \* section of run_backtest about to execute
    error,              \* exception that ended the run, or "none"
    Index,              \* data.index: timestamps as day numbers
    Close,              \* data['Close']
    short_ma, long_ma,  \* window arguments
    SMA_short, SMA_long,
    Signal, Position,
    MarketReturn, StrategyReturn,
    CumulativeMarket, CumulativeStrategy,
    buy_signals, sell_signals,   \* row positions selected by the masks
    days,
    cagr_market, cagr_strategy,
    vol_market, vol_strategy,
    sharpe_market, sharpe_strategy,
    max_dd_market, max_dd_strategy,
    printed             \* what print() received, or "nothing"

vars == << pc, error, Index, Close, short_ma, long_ma, SMA_short, SMA_long,
           Signal, Position, MarketReturn, StrategyReturn, CumulativeMarket,
           CumulativeStrategy, buy_signals, sell_signals, days, cagr_market,
           cagr_strategy, vol_market, vol_strategy, sharpe_market,
           sharpe_strategy, max_dd_market, max_dd_strategy, printed >>

series == << SMA_short, SMA_long, Signal, Position, MarketReturn,
             StrategyReturn, CumulativeMarket, CumulativeStrategy >>

events == << buy_signals, sell_signals >>

metrics == << days, cagr_market, cagr_strategy, vol_market, vol_strategy,
              sharpe_market, sharpe_strategy, max_dd_market, max_dd_strategy >>

input == << Index, Close, short_ma, long_ma >>

(***************************************************************************)
(* Bounds of the explored inputs.                                          *)
(***************************************************************************)
MaxLen == 4
MaxPrice == 3
MaxWin == 3
LongLen == 5
RawLen == 3
RawDay == 3

\* 365.0 in the CAGR exponent.
DaysPerYear == 365

(***************************************************************************)
(* float64 arithmetic                                                      *)
(***************************************************************************)
Abs(x) == IF x < 0 THEN -x ELSE x

RECURSIVE GCD(_, _)
GCD(a, b) == IF b = 0 THEN a ELSE GCD(b, a % b)

NaN == [k |-> "nan", n |-> 0, d |-> 1]

Inf(s) == [k |-> "inf", n |-> s, d |-> 1]

Unset == [k |-> "unset", n |-> 0, d |-> 1]

\* n/d, d # 0, in lowest terms with a positive denominator
Num(n, d) ==
    LET g == GCD(Abs(n), Abs(d))
        s == IF d < 0 THEN -1 ELSE 1
    IN  [k |-> "num", n |-> (s * n) \div g, d |-> (s * d) \div g]

One == Num(1, 1)

IsNum(x) == x.k = "num"

IsNaN(x) == x.k = "nan"

FAdd(a, b) == IF IsNum(a) /\ IsNum(b) THEN Num(a.n * b.d + b.n * a.d, a.d * b.d) ELSE NaN

FSub(a, b) == IF IsNum(a) /\ IsNum(b) THEN Num(a.n * b.d - b.n * a.d, a.d * b.d) ELSE NaN

FMul(a, b) == IF IsNum(a) /\ IsNum(b) THEN Num(a.n * b.n, a.d * b.d) ELSE NaN

\* x/0 is +-inf, 0/0 is nan (numpy warns, does not raise)
FDiv(a, b) ==
    IF ~(IsNum(a) /\ IsNum(b)) THEN NaN
    ELSE IF b.n # 0 THEN Num(a.n * b.d, a.d * b.n)
    ELSE IF a.n = 0 THEN NaN
    ELSE Inf(IF a.n > 0 THEN 1 ELSE -1)

\* comparisons are False when an operand is nan
FGt(a, b) == IsNum(a) /\ IsNum(b) /\ a.n * b.d > b.n * a.d

FLt(a, b) == IsNum(a) /\ IsNum(b) /\ a.n * b.d < b.n * a.d

FEq(a, b) == IsNum(a) /\ IsNum(b) /\ a.n * b.d = b.n * a.d

FLe(a, b) == FLt(a, b) \/ FEq(a, b)

Sign(x) == IF x > 0 THEN 1 ELSE IF x < 0 THEN -1 ELSE 0

(***************************************************************************)
(* pandas column operations                                                *)
(***************************************************************************)
Rows(s) == 1..Len(s)

ToFloat(s) == [i \in Rows(s) |-> Num(s[i], 1)]

\* running window sum as the rolling aggregation keeps it: add the entering
\* value, remove the one that leaves the window
RECURSIVE RollSum(_, _, _)
RollSum(s, i, W) ==
    IF i = 0 THEN 0
    ELSE RollSum(s, i - 1, W) + s[i] - (IF i > W THEN s[i - W] ELSE 0)

\* a rolling mean that emits partial-window means (min_periods = 1)
RollingMeanPartial(s, W) ==
    [i \in Rows(s) |-> Num(RollSum(s, i, W), IF i < W THEN i ELSE W)]

\* s.rolling(window=W).mean(): min_periods defaults to W
RollingMean(s, W) ==
    [i \in Rows(s) |-> IF i < W THEN NaN ELSE Num(RollSum(s, i, W), W)]

\* signals with >= in place of >
GenerateSignalGe(short, long) ==
    LET s0 == [i \in Rows(short) |-> 0]
        s1 == [i \in Rows(short) |->
                 IF FGt(short[i], long[i]) \/ FEq(short[i], long[i]) THEN 1 ELSE s0[i]]
    IN  [i \in Rows(short) |-> IF FLt(short[i], long[i]) THEN -1 ELSE s1[i]]

\* Signal = 0; .loc[short > long] = 1; .loc[short < long] = -1
GenerateSignal(short, long) ==
    LET s0 == [i \in Rows(short) |-> 0]
        s1 == [i \in Rows(short) |-> IF FGt(short[i], long[i]) THEN 1 ELSE s0[i]]
    IN  [i \in Rows(short) |-> IF FLt(short[i], long[i]) THEN -1 ELSE s1[i]]

\* no shift at all: the position is the same row's signal
ShiftNone(s) == s

\* s.shift(1): row 0 becomes NaN, row t takes row t-1
Shift(s) == [i \in Rows(s) |-> IF i = 1 THEN NaN ELSE s[i - 1]]

\* c.pct_change(): c[t]/c[t-1] - 1, NaN in row 0
PctChange(c) ==
    [i \in Rows(c) |->
       IF i = 1 THEN NaN ELSE FSub(FDiv(Num(c[i], 1), Num(c[i - 1], 1)), One)]

\* the strategy return taken to be the market return, position ignored
TimesFirstOnly(a, b) == a

\* element-wise a * b
Times(a, b) == [i \in Rows(a) |-> FMul(a[i], b[i])]

\* 1 + s
OnePlus(s) == [i \in Rows(s) |-> FAdd(One, s[i])]

\* The accumulations below split their range in halves (the operations are
\* associative in exact arithmetic) to keep the evaluation depth logarithmic.

\* product of the non-NaN entries of s[lo..hi]; 1 when there is none
RECURSIVE ProdSkipNa(_, _, _)
ProdSkipNa(s, lo, hi) ==
    IF lo > hi THEN One
    ELSE IF lo = hi THEN (IF IsNaN(s[lo]) THEN One ELSE s[lo])
    ELSE LET mid == (lo + hi) \div 2
         IN  FMul(ProdSkipNa(s, lo, mid), ProdSkipNa(s, mid + 1, hi))

\* product of all entries of s[lo..hi], NaN included
RECURSIVE ProdAll(_, _, _)
ProdAll(s, lo, hi) ==
    IF lo > hi THEN One
    ELSE IF lo = hi THEN s[lo]
    ELSE LET mid == (lo + hi) \div 2
         IN  FMul(ProdAll(s, lo, mid), ProdAll(s, mid + 1, hi))

\* a cumulative product that does not skip NaN
CumProdNoSkip(s) == [i \in Rows(s) |-> ProdAll(s, 1, i)]

\* s.cumprod(): skipna, a NaN row stays NaN and does not stop the product
CumProd(s) == [i \in Rows(s) |-> IF IsNaN(s[i]) THEN NaN ELSE ProdSkipNa(s, 1, i)]

\* the larger of two values, NaN only when both are
Max2(a, b) == IF IsNaN(a) THEN b ELSE IF IsNaN(b) THEN a ELSE IF FGt(b, a) THEN b ELSE a

\* the smaller of two values, NaN only when both are
Min2(a, b) == IF IsNaN(a) THEN b ELSE IF IsNaN(b) THEN a ELSE IF FLt(b, a) THEN b ELSE a

\* largest non-NaN entry of s[lo..hi]; NaN when there is none
RECURSIVE MaxSkipNa(_, _, _)
MaxSkipNa(s, lo, hi) ==
    IF lo > hi THEN NaN
    ELSE IF lo = hi THEN s[lo]
    ELSE LET mid == (lo + hi) \div 2
         IN  Max2(MaxSkipNa(s, lo, mid), MaxSkipNa(s, mid + 1, hi))

\* s.cummax(): skipna
CumMax(s) == [i \in Rows(s) |-> IF IsNaN(s[i]) THEN NaN ELSE MaxSkipNa(s, 1, i)]

\* smallest non-NaN entry of s[lo..hi]; NaN when there is none
RECURSIVE MinSkipNa(_, _, _)
MinSkipNa(s, lo, hi) ==
    IF lo > hi THEN NaN
    ELSE IF lo = hi THEN s[lo]
    ELSE LET mid == (lo + hi) \div 2
         IN  Min2(MinSkipNa(s, lo, mid), MinSkipNa(s, mid + 1, hi))

\* s.min(): skipna
SeriesMin(s) == MinSkipNa(s, 1, Len(s))

\* s.iloc[-1]
Last(s) == s[Len(s)]

\* the rows where the position is v, whatever the row before
EventRowsEveryRow(pos, v) == {i \in Rows(pos) : FEq(pos[i], Num(v, 1))}

\* data[(Position == v) & (Position.shift(1) != v)]
EventRows(pos, v) ==
    {i \in Rows(pos) : FEq(pos[i], Num(v, 1)) /\ ~FEq(Shift(pos)[i], Num(v, 1))}

(***************************************************************************)
(* performance metrics                                                     *)
(***************************************************************************)
\* class of c ** (365.0/d) - 1 for d # 0.  A negative base has a real power
\* only when 365/d is an integer (then an odd one, 365 = 5 * 73); numpy
\* returns nan otherwise.  0 ** negative is inf.
CagrClass(c, d) ==
    IF ~IsNum(c) THEN "nan"
    ELSE IF c.n < 0 THEN (IF DaysPerYear % Abs(d) = 0 THEN "neg" ELSE "nan")
    ELSE IF c.n = 0 THEN (IF d > 0 THEN "neg" ELSE "pinf")
    ELSE LET s == Sign(c.n - c.d) * Sign(d)
         IN  IF s > 0 THEN "pos" ELSE IF s < 0 THEN "neg" ELSE "zero"

\* class of s.std() * sqrt(252): the sample deviation (ddof = 1) of the
\* non-NaN entries; nan with fewer than two of them
StdClass(s) ==
    LET valid == {i \in Rows(s) : ~IsNaN(s[i])}
    IN  IF Cardinality(valid) < 2 THEN "nan"
        ELSE IF \A i, j \in valid : s[i] = s[j] THEN "zero"
        ELSE "pos"

\* class of c / v for float64 operands: x/0 is +-inf, 0/0 is nan, no exception
DivClass(c, v) ==
    IF c = "nan" \/ v = "nan" THEN "nan"
    ELSE IF v = "zero"
         THEN (IF c = "zero" THEN "nan"
               ELSE IF c \in {"pos", "pinf"} THEN "pinf" ELSE "ninf")
    ELSE c

\* a drawdown measured from the highest value of the whole series (max in
\* place of cummax)
MaxDrawdownGlobalPeak(s) ==
    LET cumulative == CumProd(OnePlus(s))
        top == MaxSkipNa(cumulative, 1, Len(s))
        drawdown == [i \in Rows(s) |-> FDiv(FSub(cumulative[i], top), top)]
    IN  SeriesMin(drawdown)

\* max_drawdown(series)
MaxDrawdown(s) ==
    LET cumulative == CumProd(OnePlus(s))
        peak == CumMax(cumulative)
        drawdown == [i \in Rows(s) |-> FDiv(FSub(cumulative[i], peak[i]), peak[i])]
    IN  SeriesMin(drawdown)

(***************************************************************************)
(* inputs                                                                  *)
(***************************************************************************)
\* Scenario B of the specification: 100, 101, ..., 159 with windows 5 and 20
ScenarioBClose == [i \in 1..60 |-> 99 + i]

\* one trading day per row
DailyIndex(n) == [i \in 1..n |-> i]

\* prices a malformed download may hold.  0 is left out: pct_change then
\* yields inf through signed zeros, which the rational model does not carry.
RawPrices == {-1, 1, 2}

Start ==
    /\ pc = "sma"
    /\ error = "none"
    /\ SMA_short = << >> /\ SMA_long = << >>
    /\ Signal = << >> /\ Position = << >>
    /\ MarketReturn = << >> /\ StrategyReturn = << >>
    /\ CumulativeMarket = << >> /\ CumulativeStrategy = << >>
    /\ buy_signals = {} /\ sell_signals = {}
    /\ days = 0
    /\ cagr_market = "unset" /\ cagr_strategy = "unset"
    /\ vol_market = "unset" /\ vol_strategy = "unset"
    /\ sharpe_market = "unset" /\ sharpe_strategy = "unset"
    /\ max_dd_market = Unset /\ max_dd_strategy = Unset
    /\ printed = << >>

\* a download that honours the input contract: positive prices, strictly
\* increasing timestamps (possibly no row at all)
InitBounded ==
    /\ \E n \in 0..MaxLen :
         /\ Close \in [1..n -> 1..MaxPrice]
         /\ Index = DailyIndex(n)
    /\ short_ma \in 1..MaxWin
    /\ long_ma \in 1..MaxWin
    /\ Start

InitScenarioB ==
    /\ Close = ScenarioBClose
    /\ Index = DailyIndex(Len(ScenarioBClose))
    /\ short_ma = 5
    /\ long_ma = 20
    /\ Start

\* longer series over two price levels: room for repeated crossovers
InitLong ==
    /\ Close \in [1..LongLen -> 1..2]
    /\ Index = DailyIndex(LongLen)
    /\ short_ma \in 1..MaxWin
    /\ long_ma \in 1..MaxWin
    /\ Start

Init == InitBounded \/ InitLong \/ InitScenarioB

\* any download: prices may be negative, timestamps in any order
InitRaw ==
    /\ \E n \in 0..RawLen :
         /\ Close \in [1..n -> RawPrices]
         /\ Index \in [1..n -> 1..RawDay]
    /\ short_ma \in 1..MaxWin
    /\ long_ma \in 1..MaxWin
    /\ Start

(***************************************************************************)
(* run_backtest, section by section                                        *)
(***************************************************************************)
\* 2. Create Moving Averages
MovingAverages ==
    /\ pc = "sma"
    /\ SMA_short' = RollingMean(Close, short_ma)
    /\ SMA_long' = RollingMean(Close, long_ma)
    /\ pc' = "signal"
    /\ UNCHANGED << error, input, Signal, Position, MarketReturn, StrategyReturn,
                    CumulativeMarket, CumulativeStrategy, events, metrics, printed >>

\* 3. Generate Trading Signals, shifted by one row
TradingSignals ==
    /\ pc = "signal"
    /\ Signal' = GenerateSignal(SMA_short, SMA_long)
    /\ Position' = Shift(ToFloat(Signal'))
    /\ pc' = "returns"
    /\ UNCHANGED << error, input, SMA_short, SMA_long, MarketReturn, StrategyReturn,
                    CumulativeMarket, CumulativeStrategy, events, metrics, printed >>

\* 4. Calculate Returns
Returns ==
    /\ pc = "returns"
    /\ MarketReturn' = PctChange(Close)
    /\ StrategyReturn' = Times(MarketReturn', Position)
    /\ CumulativeMarket' = CumProd(OnePlus(MarketReturn'))
    /\ CumulativeStrategy' = CumProd(OnePlus(StrategyReturn'))
    /\ pc' = "events"
    /\ UNCHANGED << error, input, SMA_short, SMA_long, Signal, Position,
                    events, metrics, printed >>

\* 5. Buy/Sell Points
BuySellPoints ==
    /\ pc = "events"
    /\ buy_signals' = EventRows(Position, 1)
    /\ sell_signals' = EventRows(Position, -1)
    /\ pc' = "days"
    /\ UNCHANGED << error, input, series, metrics, printed >>

\* 6. days: data.index[-1] raises IndexError on an empty table
DaysIndexError ==
    /\ pc = "days"
    /\ Len(Index) = 0
    /\ error' = "IndexError"
    /\ pc' = "aborted"
    /\ UNCHANGED << input, series, events, metrics, printed >>

\* 6. days = (data.index[-1] - data.index[0]).days
Days ==
    /\ pc = "days"
    /\ Len(Index) > 0
    /\ days' = Last(Index) - Index[1]
    /\ pc' = "cagr"
    /\ UNCHANGED << error, input, series, events, cagr_market, cagr_strategy,
                    vol_market, vol_strategy, sharpe_market, sharpe_strategy,
                    max_dd_market, max_dd_strategy, printed >>

\* 6. CAGR: 365.0/days raises ZeroDivisionError when days is 0
CagrZeroDivisionError ==
    /\ pc = "cagr"
    /\ days = 0
    /\ error' = "ZeroDivisionError"
    /\ pc' = "aborted"
    /\ UNCHANGED << input, series, events, metrics, printed >>

\* 6. CAGR
Cagr ==
    /\ pc = "cagr"
    /\ days # 0
    /\ cagr_market' = CagrClass(Last(CumulativeMarket), days)
    /\ cagr_strategy' = CagrClass(Last(CumulativeStrategy), days)
    /\ pc' = "vol"
    /\ UNCHANGED << error, input, series, events, days, vol_market, vol_strategy,
                    sharpe_market, sharpe_strategy, max_dd_market, max_dd_strategy,
                    printed >>

\* 6. Volatility (annualized)
Volatility ==
    /\ pc = "vol"
    /\ vol_market' = StdClass(MarketReturn)
    /\ vol_strategy' = StdClass(StrategyReturn)
    /\ pc' = "sharpe"
    /\ UNCHANGED << error, input, series, events, days, cagr_market, cagr_strategy,
                    sharpe_market, sharpe_strategy, max_dd_market, max_dd_strategy,
                    printed >>

\* 6. Sharpe ratio
Sharpe ==
    /\ pc = "sharpe"
    /\ sharpe_market' = DivClass(cagr_market, vol_market)
    /\ sharpe_strategy' = DivClass(cagr_strategy, vol_strategy)
    /\ pc' = "maxdd"
    /\ UNCHANGED << error, input, series, events, days, cagr_market, cagr_strategy,
                    vol_market, vol_strategy, max_dd_market, max_dd_strategy, printed >>

\* 6. Max Drawdown
MaxDD ==
    /\ pc = "maxdd"
    /\ max_dd_market' = MaxDrawdown(MarketReturn)
    /\ max_dd_strategy' = MaxDrawdown(StrategyReturn)
    /\ pc' = "print"
    /\ UNCHANGED << error, input, series, events, days, cagr_market, cagr_strategy,
                    vol_market, vol_strategy, sharpe_market, sharpe_strategy, printed >>

\* 6. Print metrics to console: the values go to the f-strings as they are
PrintMetrics ==
    /\ pc = "print"
    /\ printed' = << [cagr_market |-> cagr_market, cagr_strategy |-> cagr_strategy,
                      sharpe_market |-> sharpe_market,
                      sharpe_strategy |-> sharpe_strategy,
                      max_dd_market |-> max_dd_market,
                      max_dd_strategy |-> max_dd_strategy] >>
    /\ pc' = "plot"
    /\ UNCHANGED << error, input, series, events, metrics >>

\* 7. Plot Results: reads the table, changes nothing
Plot ==
    /\ pc = "plot"
    /\ pc' = "done"
    /\ UNCHANGED << error, input, series, events, metrics, printed >>

Next ==
    \/ MovingAverages
    \/ TradingSignals
    \/ Returns
    \/ BuySellPoints
    \/ DaysIndexError
    \/ Days
    \/ CagrZeroDivisionError
    \/ Cagr
    \/ Volatility
    \/ Sharpe
    \/ MaxDD
    \/ PrintMetrics
    \/ Plot

Spec == Init /\ [][Next]_vars

SpecRaw == InitRaw /\ [][Next]_vars

(***************************************************************************)
(* Properties                                                              *)
(***************************************************************************)
N == Len(Close)

Plus1 == Num(1, 1)

Zero == Num(0, 1)

AfterAverages == pc # "sma"

AfterSignals == pc \notin {"sma", "signal"}

AfterReturns == pc \notin {"sma", "signal", "returns"}

AfterEvents == pc \notin {"sma", "signal", "returns", "events"}

AfterMaxDD == pc \in {"print", "plot", "done"}

IsScenarioB ==
    Close = ScenarioBClose /\ short_ma = 5 /\ long_ma = 20

\* no division by zero occurs in any column, and row 0 is the only undefined
\* row of the return and cumulative columns
NoInf ==
    AfterReturns =>
        \A i \in 1..N :
            /\ SMA_short[i].k \in {"num", "nan"} /\ SMA_long[i].k \in {"num", "nan"}
            /\ IsNum(MarketReturn[i]) = (i > 1) /\ IsNum(StrategyReturn[i]) = (i > 1)
            /\ IsNum(CumulativeMarket[i]) = (i > 1) /\ IsNum(CumulativeStrategy[i]) = (i > 1)

----------------------------------------------------------------------------
\* C1: Position is undefined in row 0 and, in every later row t, is exactly
\* the Signal of row t-1.
C1_PositionIsShiftedSignal ==
    AfterSignals =>
        /\ Len(Position) = Len(Signal)
        /\ Len(Signal) = N
        /\ N >= 1 => IsNaN(Position[1])
        /\ \A t \in 2..N : Position[t] = Num(Signal[t - 1], 1)

\* a run where a row holds +1 from the row before while its own signal is -1
C1_Witness ==
    /\ pc = "done"
    /\ \E t \in 2..N : Signal[t - 1] = 1 /\ Position[t] = Plus1 /\ Signal[t] = -1

----------------------------------------------------------------------------
\* the compounding of s[1..t] with every undefined entry counted as a 0 return
CompoundZeroFilled(s, t) ==
    ProdAll([i \in Rows(s) |-> IF IsNaN(s[i]) THEN One ELSE FAdd(One, s[i])], 1, t)

----------------------------------------------------------------------------
\* C3: Signal is +1 exactly where both averages are defined and short > long,
\* -1 exactly where both are defined and short < long, and 0 everywhere else;
\* no other value occurs, whatever the order of the windows.
C3_SignalValues ==
    AfterSignals =>
        \A t \in 1..N :
            LET s == SMA_short[t]
                l == SMA_long[t]
                both == IsNum(s) /\ IsNum(l)
            IN  /\ Signal[t] \in {1, -1, 0}
                /\ (Signal[t] = 1) <=> (both /\ s.n * l.d > l.n * s.d)
                /\ (Signal[t] = -1) <=> (both /\ s.n * l.d < l.n * s.d)

\* short window above the long one; all three values occur, 0 both from an
\* undefined average and from two equal defined ones
C3_Witness ==
    /\ pc = "done"
    /\ short_ma > long_ma
    /\ {Signal[t] : t \in 1..N} = {1, -1, 0}
    /\ \E t \in 1..N : Signal[t] = 0 /\ IsNaN(SMA_short[t])
    /\ \E t \in 1..N : Signal[t] = 0 /\ IsNum(SMA_short[t]) /\ IsNum(SMA_long[t])

----------------------------------------------------------------------------
\* sum of s[lo..hi]
RECURSIVE SumRange(_, _, _)
SumRange(s, lo, hi) == IF lo > hi THEN 0 ELSE s[hi] + SumRange(s, lo, hi - 1)

MovingAverageOf(sma, W) ==
    /\ Len(sma) = N
    /\ \A i \in 1..N :
         /\ i < W => IsNaN(sma[i])
         /\ i >= W => sma[i] = Num(SumRange(Close, i - W + 1, i), W)
    /\ Cardinality({i \in 1..N : IsNum(sma[i])}) = (IF N >= W THEN N - W + 1 ELSE 0)

\* C4: a moving average has the length of the prices, its first W-1 entries
\* undefined, every later entry the mean of the W prices ending there; so
\* len-W+1 defined entries when len >= W and none when W > len.
C4_MovingAverage ==
    AfterAverages =>
        /\ MovingAverageOf(SMA_short, short_ma)
        /\ MovingAverageOf(SMA_long, long_ma)

\* a short window longer than the series (no defined entry, and the run
\* completes) beside a long window with an undefined head and a fractional mean
C4_Witness ==
    /\ pc = "done"
    /\ short_ma > N
    /\ \A i \in 1..N : IsNaN(SMA_short[i])
    /\ long_ma >= 2 /\ long_ma <= N
    /\ IsNaN(SMA_long[1]) /\ IsNum(SMA_long[N]) /\ SMA_long[N].d = 2

----------------------------------------------------------------------------
\* the defined entries of c never decrease
NonDecreasing(c) ==
    \A i, j \in Rows(c) : (i < j /\ IsNum(c[i]) /\ IsNum(c[j])) => FLe(c[i], c[j])

DrawdownOf(dd, ret) ==
    /\ IsNum(dd)
    /\ dd.n <= 0
    /\ NonDecreasing(CumProd(OnePlus(ret))) => dd.n = 0

\* C5: max_drawdown is <= 0, and exactly 0 when the compounded series never
\* decreases; for the market and for the strategy returns.
C5_MaxDrawdown ==
    AfterMaxDD =>
        /\ DrawdownOf(max_dd_market, MarketReturn)
        /\ DrawdownOf(max_dd_strategy, StrategyReturn)

\* a market that rises without a fall (drawdown 0) while the strategy, short
\* in the rise, draws down
C5_Witness ==
    /\ pc = "done"
    /\ NonDecreasing(CumulativeMarket)
    /\ \E i \in 1..N : FGt(CumulativeMarket[i], One)
    /\ max_dd_market = Zero
    /\ max_dd_strategy.n < 0

----------------------------------------------------------------------------
ZeroElapsedDays == Len(Index) > 0 /\ Last(Index) = Index[1]

\* C6: with zero days between the first and the last timestamp the run is
\* not aborted by a division by zero and CAGR is an explicit undefined result.
C6_AsStated ==
    ZeroElapsedDays =>
        /\ error # "ZeroDivisionError"
        /\ pc # "aborted"
        /\ pc \in {"vol", "sharpe", "maxdd", "print", "plot", "done"} =>
             cagr_market = "undefined" /\ cagr_strategy = "undefined"

----------------------------------------------------------------------------
\* C7: a Sharpe ratio whose volatility is zero or undefined reaches the
\* report as an explicit undefined outcome: not zero, not infinity, not NaN.
C7_AsStated ==
    pc = "done" =>
        /\ vol_market \in {"zero", "nan"} =>
             printed[1].sharpe_market \notin {"zero", "pinf", "ninf", "nan"}
        /\ vol_strategy \in {"zero", "nan"} =>
             printed[1].sharpe_strategy \notin {"zero", "pinf", "ninf", "nan"}

----------------------------------------------------------------------------
Malformed ==
    \/ \E i \in 1..N : Close[i] <= 0
    \/ \E i \in 1..(N - 1) : Index[i] >= Index[i + 1]

\* C8: a series with a non-positive price or timestamps that do not strictly
\* increase ends the run before any metric is produced: no CAGR is computed
\* from it and nothing is reported.
C8_AsStated ==
    Malformed =>
        /\ cagr_market = "unset" /\ cagr_strategy = "unset"
        /\ printed = << >>
        /\ pc \notin {"vol", "sharpe", "maxdd", "print", "plot", "done"}

----------------------------------------------------------------------------
EventsOf(rows, v) ==
    /\ \A t \in 1..N :
         t \in rows <=> (t >= 2 /\ Position[t] = Num(v, 1) /\ Position[t - 1] # Num(v, 1))
    /\ 1 \notin rows
    /\ \A a, b \in rows :
         a < b => \E m \in (a + 1)..(b - 1) : Position[m] # Num(v, 1)

\* C9: a buy (sell) event is extracted in row t exactly when the position is
\* +1 (-1) there and anything else, undefined included, in row t-1; row 0 is
\* never an event, no row is both, and between two buy (sell) events some row
\* has a position other than +1 (-1).
C9_Events ==
    AfterEvents =>
        /\ EventsOf(buy_signals, 1)
        /\ EventsOf(sell_signals, -1)
        /\ buy_signals \cap sell_signals = {}

\* two buy events with a sell event between them, the first in row 2 (the
\* earliest row with a signal behind it)
C9_Witness ==
    /\ pc = "done"
    /\ 3 \in buy_signals
    /\ \E a, b \in buy_signals : \E c \in sell_signals : a < c /\ c < b

----------------------------------------------------------------------------
ScenarioBCommon ==
    /\ \A t \in 1..N : (IsNum(SMA_short[t]) /\ IsNum(SMA_long[t])) => Signal[t] = 1
    /\ Cardinality(buy_signals) = 1
    /\ sell_signals = {}

\* C10 as stated: in Scenario B the signal is +1 wherever both averages are
\* defined, there is one buy and no sell event, and wherever the position is
\* +1 the market's cumulative growth over the strategy's is the growth factor
\* of a single period.
C10_AsStated ==
    (IsScenarioB /\ AfterEvents) =>
        /\ ScenarioBCommon
        /\ \A t \in 1..N :
             Position[t] = Plus1 =>
               \E k \in 2..N :
                 FDiv(CumulativeMarket[t], CumulativeStrategy[t]) = Num(Close[k], Close[k - 1])

\* C10 amended: the same, except that the market's cumulative growth over the
\* strategy's is the market's growth over the long_ma - 1 = 19 periods that
\* pass before the first position: price[19]/price[0] = 119/100.
C10_ScenarioB ==
    (IsScenarioB /\ AfterEvents) =>
        /\ ScenarioBCommon
        /\ buy_signals = {long_ma + 1}
        /\ \A t \in 1..N :
             Position[t] = Plus1 =>
               /\ FDiv(CumulativeMarket[t], CumulativeStrategy[t])
                    = Num(Close[long_ma], Close[1])
               /\ Num(Close[long_ma], Close[1]) = Num(119, 100)

C10_Witness ==
    /\ IsScenarioB
    /\ pc = "done"
    /\ Position[N] = Plus1
    /\ \A t \in 1..long_ma : Position[t] # Plus1
    /\ CumulativeStrategy[N] = Num(159, 119)

====
